---------------------------- MODULE Spec2Model ----------------------------
(***************************************************************************)
(* Model of the payload-driven travel-insurance chat flow:                 *)
(*   travel_payload_agent.py   - the slot-filling collection core          *)
(*   intelligent_orchestrator.py - stage dispatch of one chat turn         *)
(*   quote_manager.py          - the quote call on the finalized payload   *)
(* Python strings are TLA+ strings, examined character by character.       *)
(* Python values are tagged records, so that None, [], "", False and 0     *)
(* stay distinct.                                                          *)
(***************************************************************************)
EXTENDS Integers, Sequences, FiniteSets, TLC

VARIABLES sessions, turn, api_request, probe, found, inflight

vars == <<sessions, turn, api_request, probe, found, inflight>>

(***************************************************************************)
(* Bounds of the model.                                                    *)
(***************************************************************************)
MaxAdults == 2
MaxChildren == 1

(***************************************************************************)
(* Python values.                                                          *)
(***************************************************************************)
PyNone == [t |-> "none"]
PyBool(b) == [t |-> "bool", v |-> b]
PyInt(n) == [t |-> "int", v |-> n]
PyStr(s) == [t |-> "str", v |-> s]
PyList(q) == [t |-> "list", v |-> q]
EmptyDict == [k \in {} |-> PyNone]
\* The value of last_question_key, and of find_next_question_key, that is None.
NoKey == "None"

\* Python truthiness of a value (used by `x if lst else 0` and `if s and e`).
Truthy(x) ==
    CASE x.t = "none" -> FALSE
      [] x.t = "bool" -> x.v
      [] x.t = "int" -> x.v # 0
      [] x.t = "str" -> Len(x.v) > 0
      [] x.t = "list" -> Len(x.v) > 0

(***************************************************************************)
(* Python string methods, character by character.                          *)
(***************************************************************************)
Ch(s, i) == SubSeq(s, i, i)

UpperLetters == "ABCDEFGHIJKLMNOPQRSTUVWXYZ"
LowerLetters == "abcdefghijklmnopqrstuvwxyz"
AsciiDigits == "0123456789"
\* A character for which str.isdigit() is true and int() raises ValueError.
SuperscriptTwo == "²"

\* Character tables, built once: from[i] is mapped to to[i].
CharTable(from, to) ==
    [c \in {Ch(from, i) : i \in 1..Len(from)} |->
        Ch(to, CHOOSE i \in 1..Len(from) : Ch(from, i) = c)]
ToLower == CharTable(UpperLetters, LowerLetters)
ToUpper == CharTable(LowerLetters, UpperLetters)
SlashToDash == CharTable("/", "-")
DigitValue ==
    [c \in {Ch(AsciiDigits, i) : i \in 1..10} |->
        (CHOOSE i \in 1..10 : Ch(AsciiDigits, i) = c) - 1]

IsSpace(c) == c \in {" ", "\t", "\n"}
IsAsciiDigit(c) == c \in DOMAIN DigitValue

MapChar(c, table) == IF c \in DOMAIN table THEN table[c] ELSE c

RECURSIVE MapChars(_, _, _)
MapChars(s, i, table) ==
    IF i > Len(s) THEN "" ELSE MapChar(Ch(s, i), table) \o MapChars(s, i + 1, table)

lower(s) == MapChars(s, 1, ToLower)
upper(s) == MapChars(s, 1, ToUpper)
\* s.replace('/', '-')
replace(s) == MapChars(s, 1, SlashToDash)

RECURSIVE lstrip(_)
lstrip(s) == IF Len(s) > 0 /\ IsSpace(Ch(s, 1)) THEN lstrip(SubSeq(s, 2, Len(s))) ELSE s
RECURSIVE rstrip(_)
rstrip(s) ==
    IF Len(s) > 0 /\ IsSpace(Ch(s, Len(s))) THEN rstrip(SubSeq(s, 1, Len(s) - 1)) ELSE s
strip(s) == rstrip(lstrip(s))

\* str.isdigit(): non-empty and every character a digit; the superscript
\* digits are digits for isdigit() although int() rejects them.
isdigit(s) ==
    /\ Len(s) > 0
    /\ \A i \in 1..Len(s) : IsAsciiDigit(Ch(s, i)) \/ Ch(s, i) = SuperscriptTwo

IsDecimal(s) ==
    /\ Len(s) > 0
    /\ \A i \in 1..Len(s) : IsAsciiDigit(Ch(s, i))

RECURSIVE DecimalValue(_, _)
DecimalValue(s, n) ==
    IF n = 0 THEN 0 ELSE 10 * DecimalValue(s, n - 1) + DigitValue[Ch(s, n)]

\* int(s) for a string: the value, or ValueError.
IntRaises(s) == ~IsDecimal(s)
int(s) == DecimalValue(s, Len(s))

(***************************************************************************)
(* datetime.strptime(s, "%Y-%m-%d") and date subtraction.                  *)
(* %Y is \d\d\d\d, %m is 1[0-2]|0[1-9]|[1-9], %d is                       *)
(* 3[01]|[12]\d|0[1-9]|[1-9]| [1-9]; the whole string must be consumed and *)
(* the day must exist in the month.                                        *)
(***************************************************************************)
RECURSIVE FirstDash(_, _)
FirstDash(s, i) ==
    IF i > Len(s) THEN 0 ELSE IF Ch(s, i) = "-" THEN i ELSE FirstDash(s, i + 1)

\* The three fields of a text whose fifth character is the first "-" and
\* whose second "-" is at position dash (0 when there is none).
FieldsAt(s, dash) ==
    [ Y |-> SubSeq(s, 1, 4), m |-> SubSeq(s, 6, dash - 1), d |-> SubSeq(s, dash + 1, Len(s)) ]
DateFields(s) == FieldsAt(s, FirstDash(s, 6))

MatchesMonth(m) ==
    /\ IsDecimal(m)
    /\ Len(m) \in {1, 2}
    /\ int(m) \in 1..12

MatchesDay(d) ==
    \/ /\ IsDecimal(d)
       /\ Len(d) \in {1, 2}
       /\ int(d) \in 1..31
    \/ /\ Len(d) = 2
       /\ Ch(d, 1) = " "
       /\ IsAsciiDigit(Ch(d, 2))
       /\ Ch(d, 2) # "0"

IsLeap(y) == (y % 4 = 0 /\ y % 100 # 0) \/ y % 400 = 0

DaysInMonth(y, m) ==
    CASE m \in {1, 3, 5, 7, 8, 10, 12} -> 31
      [] m \in {4, 6, 9, 11} -> 30
      [] OTHER -> IF IsLeap(y) THEN 29 ELSE 28

DayNumber(d) == IF Ch(d, 1) = " " THEN int(Ch(d, 2)) ELSE int(d)

RECURSIVE DaysBeforeMonth(_, _)
DaysBeforeMonth(y, m) ==
    IF m = 1 THEN 0 ELSE DaysBeforeMonth(y, m - 1) + DaysInMonth(y, m - 1)

\* date(y, m, d) exists: datetime raises ValueError otherwise.
DateExists(y, m, d) == y >= 1 /\ d <= DaysInMonth(y, m)

\* date.toordinal(): days since 0001-01-01, that day being 1.
Ordinal(y, m, d) ==
    (y - 1) * 365 + ((y - 1) \div 4) - ((y - 1) \div 100) + ((y - 1) \div 400)
      + DaysBeforeMonth(y, m) + d

FieldsMatch(f) == IsDecimal(f.Y) /\ Len(f.Y) = 4 /\ MatchesMonth(f.m) /\ MatchesDay(f.d)
FieldsExist(f) == DateExists(int(f.Y), int(f.m), DayNumber(f.d))
FieldsOrdinal(f) == Ordinal(int(f.Y), int(f.m), DayNumber(f.d))

\* TRUE when strptime returns a datetime, FALSE when it raises ValueError.
strptime_ok(s) ==
    /\ Len(s) >= 8
    /\ Ch(s, 5) = "-"
    /\ FirstDash(s, 6) > 0
    /\ FieldsMatch(DateFields(s))
    /\ FieldsExist(DateFields(s))

\* The ordinal of strptime(s, "%Y-%m-%d").date() for a string it accepts.
strptime(s) == FieldsOrdinal(DateFields(s))

Max(a, b) == IF a >= b THEN a ELSE b

(***************************************************************************)
(* Python operators on the values a count answer may hold.                 *)
(***************************************************************************)
IsNumber(x) == x.t \in {"int", "bool"}
NumberOf(x) == IF x.t = "bool" THEN (IF x.v THEN 1 ELSE 0) ELSE x.v

\* a + b raises TypeError unless both are numbers or both are strings.
AddRaises(a, b) ==
    ~ \/ IsNumber(a) /\ IsNumber(b)
      \/ a.t = "str" /\ b.t = "str"
PyAdd(a, b) ==
    IF a.t = "str" THEN PyStr(a.v \o b.v) ELSE PyInt(NumberOf(a) + NumberOf(b))

\* a > n, n an int literal, raises TypeError unless a is a number.
GtRaises(a) == ~IsNumber(a)
PyGt(a, n) == NumberOf(a) > n

(***************************************************************************)
(* travel_payload_agent.py: template, question catalog, field resolver.    *)
(***************************************************************************)
get_payload_template ==
    ("_internal" :> [start_date |-> PyNone, end_date |-> PyNone]) @@
    [ ProductCode |-> PyStr("TVP"),
      media |-> [wcc |-> PyStr("HLS")],
      travel |->
        [ policy_type |-> PyNone,
          country_code |-> PyList(<<>>),
          number_of_days |-> PyNone,
          zone |-> PyNone,
          with_children |-> PyNone,
          with_spouse |-> PyStr("no"),
          with_group_of_adults |-> PyNone,
          with_group_of_households |-> PyStr("no"),
          plan |-> PyStr("basic"),
          selectedAddOns |->
            [ preExAddOn |-> [selected |-> PyNone, preselected |-> PyBool(FALSE)],
              lossFFMAddOn |-> [selected |-> PyNone, preselected |-> PyBool(FALSE)],
              flightDelayAddOn |-> [selected |-> PyNone, preselected |-> PyBool(FALSE)] ],
          number_of_travellers |->
            [ total |-> PyNone, child |-> PyList(<<>>), adult |-> PyList(<<>>),
              group |-> PyInt(1) ] ],
      promotion |-> [coupon_code |-> PyNone],
      leads |-> [email |-> PyNone, contact_mobile |-> PyNone],
      CEPParams |-> EmptyDict ]

\* The keys of get_question_map() in insertion order.
QuestionKeys ==
    << "travel/policy_type",
       "_internal/start_date",
       "_internal/end_date",
       "travel/country_code",
       "travel/number_of_travellers/adult",
       "travel/number_of_travellers/child",
       "travel/selectedAddOns/preExAddOn/selected",
       "travel/selectedAddOns/lossFFMAddOn/selected",
       "travel/selectedAddOns/flightDelayAddOn/selected",
       "leads/email",
       "leads/contact_mobile",
       "promotion/coupon_code" >>

get_question_map ==
    [ k \in {QuestionKeys[i] : i \in 1..Len(QuestionKeys)} |->
        CASE k = "travel/policy_type" ->
               "To start, what is the policy type? (Enter 'S' for Single Trip or 'A' for Annual)"
          [] k = "_internal/start_date" ->
               "What is your travel start date (YYYY-MM-DD)?"
          [] k = "_internal/end_date" ->
               "And what is your travel end date (YYYY-MM-DD)?"
          [] k = "travel/country_code" ->
               "What is the 3-letter country code for your destination (e.g., 'MAL')?"
          [] k = "travel/number_of_travellers/adult" ->
               "How many adults are traveling?"
          [] k = "travel/number_of_travellers/child" ->
               "How many children are traveling?"
          [] k = "travel/selectedAddOns/preExAddOn/selected" ->
               "Do you require coverage for pre-existing conditions? (true/false)"
          [] k = "travel/selectedAddOns/lossFFMAddOn/selected" ->
               "Add coverage for Loss of Frequent Flyer Miles? (true/false)"
          [] k = "travel/selectedAddOns/flightDelayAddOn/selected" ->
               "Add the Flight Delay benefit? (true/false)"
          [] k = "leads/email" ->
               "What is your email address?"
          [] k = "leads/contact_mobile" ->
               "What is your 8-digit contact mobile number?"
          [] k = "promotion/coupon_code" ->
               "Finally, do you have a coupon code? (If not, just say 'no')" ]

\* dpath splits a glob on the separator "/".
RECURSIVE split_path(_)
split_path(glob) ==
    IF \E i \in 1..Len(glob) : Ch(glob, i) = "/"
    THEN LET i == CHOOSE i \in 1..Len(glob) :
                    Ch(glob, i) = "/" /\ \A j \in 1..(i - 1) : Ch(glob, j) # "/"
         IN <<SubSeq(glob, 1, i - 1)>> \o split_path(SubSeq(glob, i + 1, Len(glob)))
    ELSE <<glob>>

IsDict(obj) == "t" \notin DOMAIN obj

\* Whether the path names a node of obj; dpath.get raises KeyError when not.
RECURSIVE HasPath(_, _)
HasPath(obj, segs) ==
    \/ segs = <<>>
    \/ /\ IsDict(obj)
       /\ Head(segs) \in DOMAIN obj
       /\ HasPath(obj[Head(segs)], Tail(segs))

RECURSIVE ValueAt(_, _)
ValueAt(obj, segs) ==
    IF segs = <<>> THEN obj ELSE ValueAt(obj[Head(segs)], Tail(segs))

\* The segments of the catalog's keys, split once.
CatalogSegments ==
    [k \in {QuestionKeys[i] : i \in 1..Len(QuestionKeys)} |-> split_path(k)]

dpath_get_raises(obj, glob) == ~HasPath(obj, CatalogSegments[glob])
dpath_get(obj, glob) == ValueAt(obj, CatalogSegments[glob])

\* dpath.set assigns at every existing path the glob matches and creates
\* none: a path that does not exist leaves obj as it is.
RECURSIVE AssignAt(_, _, _)
AssignAt(obj, segs, value) ==
    IF segs = <<>> THEN value
    ELSE [obj EXCEPT ![Head(segs)] = AssignAt(obj[Head(segs)], Tail(segs), value)]

AssignIfPresent(obj, segs, value) ==
    IF HasPath(obj, segs) THEN AssignAt(obj, segs, value) ELSE obj
dpath_set(obj, glob, value) == AssignIfPresent(obj, CatalogSegments[glob], value)

\* `value is None or value == []`
NoneOrEmptyList_Falsy(value) == ~Truthy(value)
NoneOrEmptyList_NoneOnly(value) == value = PyNone
NoneOrEmptyList(value) == value = PyNone \/ value = PyList(<<>>)

\* The body of the loop for one key: the key is returned when dpath_get
\* raises KeyError or yields None or [].
NeedsAnswer(payload, key) ==
    \/ dpath_get_raises(payload, key)
    \/ NoneOrEmptyList(dpath_get(payload, key))

\* The loop from position i on; NoKey when it runs out.
RECURSIVE find_from(_, _)
find_from(payload, i) ==
    IF i > Len(QuestionKeys) THEN NoKey
    ELSE IF NeedsAnswer(payload, QuestionKeys[i]) THEN QuestionKeys[i]
    ELSE find_from(payload, i + 1)

find_next_question_key_SkipsFirst(payload) == find_from(payload, 2)
find_next_question_key(payload) == find_from(payload, 1)

(***************************************************************************)
(* app.session_manager: the per-session store the three files call.        *)
(* A session record holds the stage, collected_info["payload"] (None when  *)
(* absent), conversation_context["last_question_key"] and the most recent  *)
(* exchange of the chat history.                                           *)
(***************************************************************************)
NewSession ==
    [ stage |-> "initial", payload |-> PyNone, last_question_key |-> NoKey,
      chat_history |-> <<>> ]

set_stage(session, stage) == [session EXCEPT !.stage = stage]
set_collected_info(session, payload) == [session EXCEPT !.payload = payload]
update_conversation_context(session, key) == [session EXCEPT !.last_question_key = key]
update_session(session, user_message, agent_response) ==
    [session EXCEPT !.chat_history = <<user_message, agent_response>>]
clear_session_for_global_reset(session) == NewSession

(***************************************************************************)
(* run_travel_payload_agent, step by step.                                 *)
(***************************************************************************)
IsGreeting_NoStrip(user_message) == lower(user_message) \in {"hi", "hello"}
IsGreeting(user_message) == lower(strip(user_message)) \in {"hi", "hello"}

DateKeys == {"_internal/start_date", "_internal/end_date"}
CountKeys == {"travel/number_of_travellers/adult", "travel/number_of_travellers/child"}

\* Step 1: a date question whose answer strptime rejects is re-asked.
InvalidDate_StartOnly(key, date_str) ==
    key = "_internal/start_date" /\ ~strptime_ok(date_str)
InvalidDate(key, date_str) == key \in DateKeys /\ ~strptime_ok(date_str)

\* Step 2, the if/elif chain that types the answer, `low` being
\* answer.lower(); it raises ValueError when int() rejects a string that
\* isdigit() accepted.
Typed_BooleanFirst(key, answer, low) ==
    IF low \in {"true", "false"}
    THEN [raised |-> FALSE, value |-> PyBool(low = "true")]
    ELSE IF key = "travel/policy_type"
    THEN [ raised |-> FALSE,
           value |-> IF low = "s" THEN PyStr("single")
                     ELSE IF low = "a" THEN PyStr("annual")
                     ELSE PyStr(answer) ]
    ELSE IF low = "no" /\ key = "promotion/coupon_code"
    THEN [raised |-> FALSE, value |-> PyStr("")]
    ELSE IF isdigit(answer)
    THEN (IF IntRaises(answer) THEN [raised |-> TRUE, value |-> PyNone]
          ELSE [raised |-> FALSE, value |-> PyInt(int(answer))])
    ELSE [raised |-> FALSE, value |-> PyStr(answer)]
Typed(key, answer, low) ==
    IF key = "travel/policy_type"
    THEN [ raised |-> FALSE,
           value |-> IF low = "s" THEN PyStr("single")
                     ELSE IF low = "a" THEN PyStr("annual")
                     ELSE PyStr(answer) ]
    ELSE IF low \in {"true", "false"}
    THEN [raised |-> FALSE, value |-> PyBool(low = "true")]
    ELSE IF low = "no" /\ key = "promotion/coupon_code"
    THEN [raised |-> FALSE, value |-> PyStr("")]
    ELSE IF isdigit(answer)
    THEN (IF IntRaises(answer) THEN [raised |-> TRUE, value |-> PyNone]
          ELSE [raised |-> FALSE, value |-> PyInt(int(answer))])
    ELSE [raised |-> FALSE, value |-> PyStr(answer)]

Normalize(key, answer) == Typed(key, answer, lower(answer))

\* Step 2, the count branch, one statement at a time: the list is assigned
\* first, then total and the two flags; an exception leaves the statements
\* before it done.
FirstOrZero(lst) == IF Truthy(lst) THEN lst.v[1] ELSE PyInt(0)

AssignCount_AlwaysAdult(payload, key, value) ==
    [payload EXCEPT !.travel.number_of_travellers.adult = PyList(<<value>>)]
AssignCount(payload, key, value) ==
    IF key = "travel/number_of_travellers/adult"
    THEN [payload EXCEPT !.travel.number_of_travellers.adult = PyList(<<value>>)]
    ELSE [payload EXCEPT !.travel.number_of_travellers.child = PyList(<<value>>)]

AssignGroupFlag(payload, adults) ==
    IF GtRaises(adults) THEN [payload |-> payload, raised |-> TRUE]
    ELSE [ payload |-> [payload EXCEPT !.travel.with_group_of_adults =
                           IF PyGt(adults, 1) THEN PyStr("yes") ELSE PyStr("no")],
           raised |-> FALSE ]

AssignChildrenFlag(payload, adults, children) ==
    IF GtRaises(children) THEN [payload |-> payload, raised |-> TRUE]
    ELSE AssignGroupFlag([payload EXCEPT !.travel.with_children =
                             IF PyGt(children, 0) THEN PyStr("yes") ELSE PyStr("no")],
                         adults)

AssignTotal(payload, adults, children) ==
    IF AddRaises(adults, children) THEN [payload |-> payload, raised |-> TRUE]
    ELSE AssignChildrenFlag([payload EXCEPT !.travel.number_of_travellers.total =
                                PyAdd(adults, children)],
                            adults, children)

Recount(payload) ==
    AssignTotal(payload,
                FirstOrZero(payload.travel.number_of_travellers.adult),
                FirstOrZero(payload.travel.number_of_travellers.child))

SetCount(payload, key, value) == Recount(AssignCount(payload, key, value))

\* Step 2, the write of a typed answer n: the payload the try block leaves
\* behind and whether the except clause was taken.
Write(payload, key, n) ==
    IF n.raised THEN [payload |-> payload, raised |-> TRUE]
    ELSE IF key \in CountKeys THEN SetCount(payload, key, n.value)
    ELSE IF key = "travel/country_code"
         THEN (IF n.value.t # "str"
               THEN [payload |-> payload, raised |-> TRUE]
               ELSE [ payload |-> dpath_set(payload, key, PyList(<<PyStr(upper(n.value.v))>>)),
                      raised |-> FALSE ])
    ELSE [payload |-> dpath_set(payload, key, n.value), raised |-> FALSE]

ApplyAnswer(payload, key, answer) == Write(payload, key, Normalize(key, answer))

ReAskText == "That doesn't look like a valid date format. Please use YYYY-MM-DD.\n\n"
FinalText == "Thank you, I have all the information. Generating your quote now..."

\* Step 4: number_of_days from the stored dates, then del payload['_internal'].
InternalDate(payload, field) ==
    IF "_internal" \in DOMAIN payload THEN payload["_internal"][field] ELSE PyNone

NumDays_NoFloor(start, end) == end - start + 1
NumDays(start, end) == Max(end - start + 1, 1)

DaysRaise(start_str, end_str) ==
    /\ Truthy(start_str)
    /\ Truthy(end_str)
    /\ ~strptime_ok(start_str.v) \/ ~strptime_ok(end_str.v)

SetNumberOfDays(payload, start_str, end_str) ==
    IF Truthy(start_str) /\ Truthy(end_str)
    THEN [payload EXCEPT !.travel.number_of_days =
                            PyInt(NumDays(strptime(start_str.v), strptime(end_str.v)))]
    ELSE payload

FinalizeRaises(payload) ==
    DaysRaise(InternalDate(payload, "start_date"), InternalDate(payload, "end_date"))

WithNumberOfDays(payload) ==
    SetNumberOfDays(payload, InternalDate(payload, "start_date"),
                    InternalDate(payload, "end_date"))

WithoutInternal_Kept(payload) == payload
WithoutInternal(payload) ==
    [k \in DOMAIN payload \ {"_internal"} |-> payload[k]]

Finalize(payload) == WithoutInternal(WithNumberOfDays(payload))

\* Steps 3 and 4 for the payload step 2 left and the key step 3 found.
Step34_FinalizesEarly(session, payload, write, next_key) ==
    IF next_key \notin {NoKey, "promotion/coupon_code"}
    THEN [ session |-> update_conversation_context(
                           set_collected_info(session, payload), next_key),
           output |-> get_question_map[next_key],
           branch |-> "prompt", write |-> write ]
    ELSE IF FinalizeRaises(payload)
    THEN [ session |-> set_collected_info(session, payload),
           output |-> "", branch |-> "fault", write |-> write ]
    ELSE [ session |-> update_conversation_context(
                           set_stage(set_collected_info(session, Finalize(payload)),
                                     "quote_generation"), NoKey),
           output |-> FinalText,
           branch |-> "final", write |-> write ]
Step34(session, payload, write, next_key) ==
    IF next_key # NoKey
    THEN [ session |-> update_conversation_context(
                           set_collected_info(session, payload), next_key),
           output |-> get_question_map[next_key],
           branch |-> "prompt", write |-> write ]
    ELSE IF FinalizeRaises(payload)
    THEN [ session |-> set_collected_info(session, payload),
           output |-> "", branch |-> "fault", write |-> write ]
    ELSE [ session |-> update_conversation_context(
                           set_stage(set_collected_info(session, Finalize(payload)),
                                     "quote_generation"), NoKey),
           output |-> FinalText,
           branch |-> "final", write |-> write ]

Step3_StoredPayload(session, payload, write) ==
    Step34(session, payload, write,
           find_next_question_key(IF session.payload = PyNone THEN get_payload_template
                                  ELSE session.payload))
Step3(session, payload, write) ==
    Step34(session, payload, write, find_next_question_key(payload))

AfterWrite(session, step2) ==
    Step3(session, step2.payload, IF step2.raised THEN "raised" ELSE "done")

\* Steps 1 and 2 for a pending question and the stripped answer (a date
\* answer with '/' replaced by '-').
AnswerTurn(session, payload, answer) ==
    IF InvalidDate(session.last_question_key, answer)
    THEN [ session |-> session,
           output |-> ReAskText \o get_question_map[session.last_question_key],
           branch |-> "reask", write |-> "none" ]
    ELSE AfterWrite(session, ApplyAnswer(payload, session.last_question_key, answer))

LoadPayload(session) ==
    IF session.payload = PyNone THEN get_payload_template ELSE session.payload

CleanAnswer(key, user_message) ==
    IF key \in DateKeys THEN replace(strip(user_message)) ELSE strip(user_message)

\* The whole function on one session record: the record it leaves in the
\* store, the text it returns, which return statement was reached (branch)
\* and how step 2 went (write: none, done, raised).
run_travel_payload_agent(session, user_message) ==
    IF session.last_question_key # NoKey /\ ~IsGreeting(user_message)
    THEN AnswerTurn(session, LoadPayload(session),
                    CleanAnswer(session.last_question_key, user_message))
    ELSE Step3(session, LoadPayload(session), "none")

(***************************************************************************)
(* quote_manager.py                                                        *)
(***************************************************************************)
PyFloat(cents) == [t |-> "float", v |-> cents]

RECURSIVE ToText(_)
ToText(n) ==
    IF n < 10 THEN Ch(AsciiDigits, n + 1)
    ELSE ToText(n \div 10) \o Ch(AsciiDigits, (n % 10) + 1)

capitalize(s) ==
    IF Len(s) = 0 THEN s ELSE upper(Ch(s, 1)) \o lower(SubSeq(s, 2, Len(s)))

\* f"S${float(final_price):.2f}", or the default when float() raises.
PriceText(final_price) ==
    IF final_price.t = "float"
    THEN "S$" \o ToText(final_price.v \div 100) \o "."
              \o ToText((final_price.v % 100) \div 10) \o ToText(final_price.v % 10)
    ELSE "Price not available"

\* quote_request.get("travel", {}).get("plan", "gold")
PlanOf(quote_request) ==
    IF "travel" \in DOMAIN quote_request /\ "plan" \in DOMAIN quote_request.travel
    THEN quote_request.travel.plan.v
    ELSE "gold"

\* The response of _call_generate_quote_api_mock for a request.
MockResponse(quote_request) ==
    [ success |-> "true", errors |-> <<>>,
      premiums |-> (PlanOf(quote_request) :> PyFloat(4050)) ]

\* What _call_generate_quote_api may return: the mock's response, or what the
\* real endpoint or the two except clauses produce.
ApiResponses(quote_request) ==
    { MockResponse(quote_request),
      [success |-> "ok", errors |-> <<>>, premiums |-> ("gold" :> PyFloat(9900))],
      [success |-> "true", errors |-> <<>>, premiums |-> ("basic" :> PyNone)],
      [success |-> "false", errors |-> <<"HTTP error: 500">>, premiums |-> EmptyDict],
      [success |-> "false", errors |-> <<>>, premiums |-> EmptyDict] }

LostText == "I seem to have lost your details. Let's start over."
QuoteFaultText == "I'm sorry, I ran into an error while generating your quote."

\* The price lookup in the response, by plan name.
PriceOf(premiums, plan_tier) ==
    IF lower(plan_tier) \in DOMAIN premiums THEN PriceText(premiums[lower(plan_tier)])
    ELSE "Price not available"

\* The function after the payload was found and the API answered.
QuoteResult(session, final_payload, quote_response) ==
    IF quote_response.success \notin {"ok", "true"}
    THEN (IF Len(quote_response.errors) = 0
          THEN [ session |-> set_stage(session, "initial"),
                 output |-> QuoteFaultText, branch |-> "fault",
                 request |-> final_payload ]
          ELSE [ session |-> session,
                 output |-> "Sorry, there was an error getting the quote: "
                              \o quote_response.errors[1],
                 branch |-> "api_error", request |-> final_payload ])
    ELSE [ session |-> set_stage(session, "initial"),
           output |-> "Your quote for the **" \o capitalize(final_payload.travel.plan.v)
                        \o " Plan** has been generated. The premium is **"
                        \o PriceOf(quote_response.premiums, final_payload.travel.plan.v)
                        \o "**.",
           branch |-> "quoted", request |-> final_payload ]

run_quote_generation_ForgetsPayload(session, quote_response) ==
    IF session.payload = PyNone \/ DOMAIN session.payload = {}
    THEN [ session |-> set_stage(session, "payload_collection"),
           output |-> LostText, branch |-> "lost", request |-> PyNone ]
    ELSE QuoteResult(set_collected_info(session, PyNone), session.payload, quote_response)
run_quote_generation(session, quote_response) ==
    IF session.payload = PyNone \/ DOMAIN session.payload = {}
    THEN [ session |-> set_stage(session, "payload_collection"),
           output |-> LostText, branch |-> "lost", request |-> PyNone ]
    ELSE QuoteResult(session, session.payload, quote_response)

(***************************************************************************)
(* The messages a user sends: greetings at any time, and for each pending  *)
(* question answers of every kind the code distinguishes.                  *)
(***************************************************************************)
Greetings == {"hi", " Hello "}

Answers(key) ==
    CASE key = "travel/policy_type" -> {" S", "a", "true", "12"}
      [] key = "_internal/start_date" -> {"2024-02-28", "2024/03/05", "tomorrow", "2024-02-30"}
      [] key = "_internal/end_date" -> {"2024-03-05", "2024/03/01 ", "next week"}
      [] key = "travel/country_code" -> {"mal", "123"}
      [] key = "travel/number_of_travellers/adult" ->
           {ToText(n) : n \in 1..MaxAdults} \cup {"two"}
      [] key = "travel/number_of_travellers/child" ->
           {ToText(n) : n \in 0..MaxChildren} \cup {"x"}
      [] key = "travel/selectedAddOns/preExAddOn/selected" -> {"true", "FALSE", "yes"}
      [] key = "travel/selectedAddOns/lossFFMAddOn/selected" -> {"false"}
      [] key = "travel/selectedAddOns/flightDelayAddOn/selected" -> {"True "}
      [] key = "leads/email" -> {"a@b.sg", "²"}
      [] key = "leads/contact_mobile" -> {"91234567"}
      [] key = "promotion/coupon_code" -> {"No", "SAVE10"}
      [] OTHER -> {"I need travel insurance"}

(***************************************************************************)
(* intelligent_orchestrator.py and the turns of the system.                *)
(***************************************************************************)
Sids == {"s1"}
ApologyText == "I'm sorry, a critical error occurred."

\* The fields of a session record the collection core reads and writes.
Core(session) ==
    [ stage |-> session.stage, payload |-> session.payload,
      last_question_key |-> session.last_question_key ]

\* The value of `found` before find_next_question_key has been called.
NotCalled == "not called"

\* The calls of run_travel_payload_agent that may be running at once, and what
\* a running call holds: the message and the session record it read on entry.
Threads == {"t1", "t2"}
Idle == [busy |-> FALSE, sid |-> "none", msg |-> "", entry |-> NewSession]

NoTurn ==
    [ op |-> "none", callee |-> "none", sid |-> "none", msg |-> "",
      stage0 |-> "initial", key0 |-> NoKey, pre |-> Core(NewSession),
      branch |-> "none", write |-> "none", output |-> "" ]

Init ==
    /\ sessions = [sid \in Sids |-> NewSession]
    /\ turn = NoTurn
    /\ api_request = PyNone
    /\ probe = PyNone
    /\ found = NotCalled
    /\ inflight = [t \in Threads |-> Idle]

\* api_request is the body of the POST the most recent turn made to the quote
\* endpoint, None when that turn made none.
\* The store and the record of the turn after one call of
\* run_travel_payload_agent on the session record `entry` returned r; the
\* orchestrator appends the exchange to the history unless the call raised.
\* The record the caller leaves in the store: orchestrate_chat appends the
\* exchange unless the call raised; its except clause writes nothing.
Persisted_ResetsOnFault(op, r, user_message) ==
    IF r.branch = "fault" THEN set_stage(r.session, "initial")
    ELSE IF op = "orchestrate_chat"
    THEN update_session(r.session, user_message, r.output)
    ELSE r.session
Persisted(op, r, user_message) ==
    IF op = "orchestrate_chat" /\ r.branch # "fault"
    THEN update_session(r.session, user_message, r.output)
    ELSE r.session

AgentDone_EverySession(op, sid, user_message, entry, r) ==
    /\ sessions' = [s \in DOMAIN sessions |-> Persisted(op, r, user_message)]
    /\ turn' = [ op |-> op, callee |-> "run_travel_payload_agent", sid |-> sid,
                 msg |-> user_message,
                 stage0 |-> sessions[sid].stage,
                 key0 |-> sessions[sid].last_question_key,
                 pre |-> Core(entry),
                 branch |-> r.branch, write |-> r.write,
                 output |-> IF op = "orchestrate_chat" /\ r.branch = "fault"
                            THEN ApologyText ELSE r.output ]
    /\ api_request' = PyNone
    /\ UNCHANGED <<probe, found, inflight>>
AgentDone(op, sid, user_message, entry, r) ==
    /\ sessions' = [sessions EXCEPT ![sid] = Persisted(op, r, user_message)]
    /\ turn' = [ op |-> op, callee |-> "run_travel_payload_agent", sid |-> sid,
                 msg |-> user_message,
                 stage0 |-> sessions[sid].stage,
                 key0 |-> sessions[sid].last_question_key,
                 pre |-> Core(entry),
                 branch |-> r.branch, write |-> r.write,
                 output |-> IF op = "orchestrate_chat" /\ r.branch = "fault"
                            THEN ApologyText ELSE r.output ]
    /\ api_request' = PyNone
    /\ UNCHANGED <<probe, found, inflight>>

AgentStep(op, sid, user_message, entry) ==
    AgentDone(op, sid, user_message, entry, run_travel_payload_agent(entry, user_message))

\* orchestrate_chat, a greeting: global reset, then the collection core.
OrchestrateGreeting(sid, user_message) ==
    /\ IsGreeting(user_message)
    /\ AgentStep("orchestrate_chat", sid, user_message,
                 set_stage(clear_session_for_global_reset(sessions[sid]),
                           "payload_collection"))

\* orchestrate_chat, stage payload_collection.
OrchestrateCollection(sid, user_message) ==
    /\ ~IsGreeting(user_message)
    /\ sessions[sid].stage = "payload_collection"
    /\ AgentStep("orchestrate_chat", sid, user_message, sessions[sid])

\* orchestrate_chat, stage quote_generation.
QuoteDone(sid, user_message, r) ==
    /\ sessions' = [sessions EXCEPT ![sid] =
                       update_session(r.session, user_message, r.output)]
    /\ turn' = [ op |-> "orchestrate_chat", callee |-> "run_quote_generation",
                 sid |-> sid, msg |-> user_message,
                 stage0 |-> sessions[sid].stage,
                 key0 |-> sessions[sid].last_question_key,
                 pre |-> Core(sessions[sid]),
                 branch |-> r.branch, write |-> "none", output |-> r.output ]
    /\ api_request' = r.request
    /\ UNCHANGED <<probe, found, inflight>>

OrchestrateQuote(sid, user_message) ==
    /\ ~IsGreeting(user_message)
    /\ sessions[sid].stage = "quote_generation"
    /\ \E quote_response \in ApiResponses(sessions[sid].payload) :
          QuoteDone(sid, user_message, run_quote_generation(sessions[sid], quote_response))

\* orchestrate_chat, any other stage: enter payload_collection first.
OrchestrateOther(sid, user_message) ==
    /\ ~IsGreeting(user_message)
    /\ sessions[sid].stage \notin {"payload_collection", "quote_generation"}
    /\ AgentStep("orchestrate_chat", sid, user_message,
                 set_stage(sessions[sid], "payload_collection"))

\* run_travel_payload_agent called without the orchestrator, in the stage in
\* which the orchestrator would call it; a greeting then reaches the core
\* with a question pending (any other message behaves as in
\* OrchestrateCollection).
DirectAgentTurn(sid, user_message) ==
    /\ sessions[sid].stage = "payload_collection"
    /\ AgentStep("run_travel_payload_agent", sid, user_message, sessions[sid])

\* The messages the user may send to a session in its current state.
Messages(sid) == Greetings \cup Answers(sessions[sid].last_question_key)

Next ==
    \/ \E sid \in DOMAIN sessions : \E m \in Messages(sid) : OrchestrateGreeting(sid, m)
    \/ \E sid \in DOMAIN sessions : \E m \in Messages(sid) : OrchestrateCollection(sid, m)
    \/ \E sid \in DOMAIN sessions : \E m \in Messages(sid) : OrchestrateQuote(sid, m)
    \/ \E sid \in DOMAIN sessions : \E m \in Messages(sid) : OrchestrateOther(sid, m)
    \/ \E sid \in DOMAIN sessions : \E m \in Greetings : DirectAgentTurn(sid, m)

Spec == Init /\ [][Next]_vars

(***************************************************************************)
(* find_next_question_key on its own: payloads in which every catalog      *)
(* field holds one of the listed values and _internal is present or not.   *)
(***************************************************************************)
ProbeOptions ==
    << <<PyNone, PyStr("")>>,
       <<PyNone, PyStr("2024-03-01")>>,
       <<PyNone, PyStr("2024-03-05")>>,
       <<PyList(<<>>), PyList(<<PyStr("MAL")>>)>>,
       <<PyList(<<>>), PyList(<<PyInt(0)>>)>>,
       <<PyList(<<>>), PyList(<<PyInt(0)>>), PyNone>>,
       <<PyNone, PyBool(FALSE)>>,
       <<PyNone, PyBool(FALSE), PyList(<<>>)>>,
       <<PyNone, PyBool(TRUE)>>,
       <<PyNone, PyInt(0)>>,
       <<PyNone, PyInt(0)>>,
       <<PyNone, PyStr(""), PyList(<<>>)>> >>

ProbeChoices ==
    {c \in [1..Len(QuestionKeys) -> 1..3] :
        \A i \in 1..Len(QuestionKeys) : c[i] <= Len(ProbeOptions[i])}

\* The template with field i set to option c[i], from field i on.
RECURSIVE ProbeFrom(_, _, _)
ProbeFrom(payload, c, i) ==
    IF i > Len(QuestionKeys) THEN payload
    ELSE ProbeFrom(AssignAt(payload, CatalogSegments[QuestionKeys[i]], ProbeOptions[i][c[i]]),
                   c, i + 1)

InitFind ==
    /\ sessions = [sid \in Sids |-> NewSession]
    /\ turn = NoTurn
    /\ api_request = PyNone
    /\ found = NotCalled
    /\ inflight = [t \in Threads |-> Idle]
    /\ \E c \in ProbeChoices : \E dropped \in BOOLEAN :
          probe = IF dropped
                  THEN [k \in DOMAIN get_payload_template \ {"_internal"} |->
                          ProbeFrom(get_payload_template, c, 1)[k]]
                  ELSE ProbeFrom(get_payload_template, c, 1)

\* One call of find_next_question_key(probe); the function assigns nothing.
FindProbe ==
    /\ found = NotCalled
    /\ found' = find_next_question_key(probe)
    /\ UNCHANGED <<sessions, turn, api_request, probe, inflight>>

NextFind == FindProbe

SpecFind == InitFind /\ [][NextFind]_vars

\* A greeting, or the answer the pending prompt asks for.
Brief(key) ==
    CASE key = "travel/policy_type" -> {"S"}
      [] key = "_internal/start_date" -> {"2024-02-28"}
      [] key = "_internal/end_date" -> {"2024/03/05"}
      [] key = "travel/country_code" -> {"mal"}
      [] key = "travel/number_of_travellers/adult" -> {"2"}
      [] key = "travel/number_of_travellers/child" -> {"1"}
      [] key = "travel/selectedAddOns/preExAddOn/selected" -> {"true"}
      [] key = "travel/selectedAddOns/lossFFMAddOn/selected" -> {"false"}
      [] key = "travel/selectedAddOns/flightDelayAddOn/selected" -> {"true"}
      [] key = "leads/email" -> {"a@b.sg"}
      [] key = "leads/contact_mobile" -> {"91234567"}
      [] key = "promotion/coupon_code" -> {"no"}
      [] OTHER -> {"I need travel insurance"}

Messages2(sid) == {"hi"} \cup Brief(sessions[sid].last_question_key)

(***************************************************************************)
(* The store failing.  app.session_manager may raise inside a call        *)
(* (SpecFault), and may hold no collected info for a session that reached  *)
(* quote_generation, the case run_quote_generation tests for (SpecLost).   *)
(* A store call that raises has written nothing.  FaultPoints are the first and the last store call *)
(* of run_travel_payload_agent, by line: get_session at 63, before any     *)
(* write, and update_conversation_context at 147, after set_stage.  A call *)
(* raising in between leaves the stage as the one at 63 does.              *)
(***************************************************************************)
FaultPoints == {"line 63", "line 147"}

\* The record on which orchestrate_chat calls run_travel_payload_agent.
Entered(session, user_message) ==
    IF IsGreeting(user_message)
    THEN set_stage(clear_session_for_global_reset(session), "payload_collection")
    ELSE IF session.stage = "payload_collection" THEN session
    ELSE set_stage(session, "payload_collection")

\* Whether the call that would return r reaches the store call `at`: line
\* 147 is in the finalizing branch.
Reaches(r, at) == at = "line 63" \/ r.branch = "final"

\* What run_travel_payload_agent leaves when the store call `at` raises, r
\* being what the call would have returned: nothing written at line 63;
\* everything but last_question_key written at line 147.
Faulted(entry, r, at) ==
    [ session |-> IF at = "line 63" THEN entry
                  ELSE set_stage(set_collected_info(entry, r.session.payload),
                                 r.session.stage),
      output |-> "", branch |-> "fault", write |-> r.write ]

FaultDone(sid, user_message, entry, r, at) ==
    /\ Reaches(r, at)
    /\ AgentDone("orchestrate_chat", sid, user_message, entry, Faulted(entry, r, at))

FaultStep(sid, user_message, entry, at) ==
    FaultDone(sid, user_message, entry, run_travel_payload_agent(entry, user_message), at)

\* orchestrate_chat, the call of run_travel_payload_agent raising.
OrchestrateCoreFault(sid, user_message, at) ==
    /\ IsGreeting(user_message) \/ sessions[sid].stage # "quote_generation"
    /\ FaultStep(sid, user_message, Entered(sessions[sid], user_message), at)

\* The store losing the collected info of a session that waits for its quote.
LosePayload(sid) ==
    /\ sessions[sid].stage = "quote_generation"
    /\ sessions[sid].payload # PyNone
    /\ sessions' = [sessions EXCEPT ![sid] = set_collected_info(sessions[sid], PyNone)]
    /\ turn' = [ op |-> "store", callee |-> "none", sid |-> sid, msg |-> "",
                 stage0 |-> sessions[sid].stage,
                 key0 |-> sessions[sid].last_question_key,
                 pre |-> Core(sessions[sid]),
                 branch |-> "none", write |-> "none", output |-> "" ]
    /\ api_request' = PyNone
    /\ UNCHANGED <<probe, found, inflight>>

NextFault ==
    \/ \E sid \in DOMAIN sessions : \E m \in Messages2(sid) : OrchestrateGreeting(sid, m)
    \/ \E sid \in DOMAIN sessions : \E m \in Messages2(sid) : OrchestrateCollection(sid, m)
    \/ \E sid \in DOMAIN sessions : \E m \in Messages2(sid) : OrchestrateQuote(sid, m)
    \/ \E sid \in DOMAIN sessions : \E m \in Messages2(sid) : OrchestrateOther(sid, m)
    \/ \E sid \in DOMAIN sessions : DirectAgentTurn(sid, "hi")
    \/ \E sid \in DOMAIN sessions : \E m \in Messages2(sid) : \E at \in FaultPoints :
          OrchestrateCoreFault(sid, m, at)

SpecFault == Init /\ [][NextFault]_vars

\* The turns of Spec, and the store losing a payload.
NextLost ==
    \/ \E sid \in DOMAIN sessions : \E m \in Messages(sid) : OrchestrateGreeting(sid, m)
    \/ \E sid \in DOMAIN sessions : \E m \in Messages(sid) : OrchestrateCollection(sid, m)
    \/ \E sid \in DOMAIN sessions : \E m \in Messages(sid) : OrchestrateQuote(sid, m)
    \/ \E sid \in DOMAIN sessions : \E m \in Messages(sid) : OrchestrateOther(sid, m)
    \/ \E sid \in DOMAIN sessions : \E m \in Greetings : DirectAgentTurn(sid, m)
    \/ \E sid \in DOMAIN sessions : LosePayload(sid)

SpecLost == Init /\ [][NextLost]_vars

(***************************************************************************)
(* Two sessions in one store.  Each user sends a greeting or the answer    *)
(* the pending prompt asks for, so that the two conversations run through  *)
(* every stage in every interleaving of whole turns.                       *)
(***************************************************************************)
Sids2 == {"s1", "s2"}

InitTwo ==
    /\ sessions = [sid \in Sids2 |-> NewSession]
    /\ turn = NoTurn
    /\ api_request = PyNone
    /\ probe = PyNone
    /\ found = NotCalled
    /\ inflight = [t \in Threads |-> Idle]

NextTwo ==
    \/ \E sid \in DOMAIN sessions : \E m \in Messages2(sid) : OrchestrateGreeting(sid, m)
    \/ \E sid \in DOMAIN sessions : \E m \in Messages2(sid) : OrchestrateCollection(sid, m)
    \/ \E sid \in DOMAIN sessions : \E m \in Messages2(sid) : OrchestrateQuote(sid, m)
    \/ \E sid \in DOMAIN sessions : \E m \in Messages2(sid) : OrchestrateOther(sid, m)
    \/ \E sid \in DOMAIN sessions : DirectAgentTurn(sid, "hi")

SpecTwo == InitTwo /\ [][NextTwo]_vars

(***************************************************************************)
(* Calls running at once.  Neither run_travel_payload_agent nor            *)
(* orchestrate_chat takes a lock, so a second call for a session id may    *)
(* start while a first is between its read of the store (lines 63-71) and  *)
(* its writes (lines 120-147).  A call is two steps: BeginTurn reads,       *)
(* EndTurn computes on what was read and writes.                           *)
(***************************************************************************)
\* The writes of the call that returned r, applied to the record the store
\* holds now: none on a re-ask; payload and last_question_key on a prompt;
\* payload, stage and last_question_key on finalization.
WriteBack(stored, r) ==
    IF r.branch = "reask" THEN stored
    ELSE IF r.branch = "prompt"
    THEN update_conversation_context(set_collected_info(stored, r.session.payload),
                                     r.session.last_question_key)
    ELSE update_conversation_context(
             set_stage(set_collected_info(stored, r.session.payload), "quote_generation"),
             NoKey)

\* orchestrate_chat in stage payload_collection, up to the reads of
\* run_travel_payload_agent.
BeginTurn(t, sid, user_message) ==
    /\ ~inflight[t].busy
    /\ ~IsGreeting(user_message)
    /\ sessions[sid].stage = "payload_collection"
    /\ inflight' = [inflight EXCEPT ![t] =
                       [ busy |-> TRUE, sid |-> sid, msg |-> user_message,
                         entry |-> sessions[sid] ]]
    /\ UNCHANGED <<sessions, turn, api_request, probe, found>>

EndDone(t, call, r) ==
    /\ sessions' = [sessions EXCEPT ![call.sid] =
                       update_session(WriteBack(sessions[call.sid], r), call.msg, r.output)]
    /\ turn' = [ op |-> "orchestrate_chat", callee |-> "run_travel_payload_agent",
                 sid |-> call.sid, msg |-> call.msg,
                 stage0 |-> call.entry.stage,
                 key0 |-> call.entry.last_question_key,
                 pre |-> Core(call.entry),
                 branch |-> r.branch, write |-> r.write, output |-> r.output ]
    /\ inflight' = [inflight EXCEPT ![t] = Idle]
    /\ api_request' = PyNone
    /\ UNCHANGED <<probe, found>>

\* The rest of the call: steps 1 to 4 on what was read, and the writes.
EndTurn(t) ==
    /\ inflight[t].busy
    /\ EndDone(t, inflight[t], run_travel_payload_agent(inflight[t].entry, inflight[t].msg))

NextRace ==
    \/ \E sid \in DOMAIN sessions : OrchestrateGreeting(sid, "hi")
    \/ \E t \in Threads : \E sid \in DOMAIN sessions :
          \E m \in Brief(sessions[sid].last_question_key) : BeginTurn(t, sid, m)
    \/ \E t \in Threads : EndTurn(t)

SpecRace == Init /\ [][NextRace]_vars

(***************************************************************************)
(* Vocabulary of the properties.                                           *)
(***************************************************************************)
AgentTurn == turn.callee = "run_travel_payload_agent"
After == sessions[turn.sid]

\* The value a payload holds for a catalog field, read field by field.
Missing == [t |-> "missing"]
FieldValue(p, key) ==
    CASE key = "travel/policy_type" -> p.travel.policy_type
      [] key = "_internal/start_date" ->
           IF "_internal" \in DOMAIN p THEN p["_internal"].start_date ELSE Missing
      [] key = "_internal/end_date" ->
           IF "_internal" \in DOMAIN p THEN p["_internal"].end_date ELSE Missing
      [] key = "travel/country_code" -> p.travel.country_code
      [] key = "travel/number_of_travellers/adult" -> p.travel.number_of_travellers.adult
      [] key = "travel/number_of_travellers/child" -> p.travel.number_of_travellers.child
      [] key = "travel/selectedAddOns/preExAddOn/selected" ->
           p.travel.selectedAddOns.preExAddOn.selected
      [] key = "travel/selectedAddOns/lossFFMAddOn/selected" ->
           p.travel.selectedAddOns.lossFFMAddOn.selected
      [] key = "travel/selectedAddOns/flightDelayAddOn/selected" ->
           p.travel.selectedAddOns.flightDelayAddOn.selected
      [] key = "leads/email" -> p.leads.email
      [] key = "leads/contact_mobile" -> p.leads.contact_mobile
      [] key = "promotion/coupon_code" -> p.promotion.coupon_code

\* Answered: neither a missing path, nor null, nor an empty list.
Answered(p, key) ==
    /\ FieldValue(p, key).t # "missing"
    /\ FieldValue(p, key).t # "none"
    /\ ~(FieldValue(p, key).t = "list" /\ Len(FieldValue(p, key).v) = 0)

\* The catalog order as the specification lists it.
CatalogOrder ==
    << "travel/policy_type", "_internal/start_date", "_internal/end_date",
       "travel/country_code", "travel/number_of_travellers/adult",
       "travel/number_of_travellers/child",
       "travel/selectedAddOns/preExAddOn/selected",
       "travel/selectedAddOns/lossFFMAddOn/selected",
       "travel/selectedAddOns/flightDelayAddOn/selected",
       "leads/email", "leads/contact_mobile", "promotion/coupon_code" >>
CatalogKeys == {CatalogOrder[i] : i \in 1..Len(CatalogOrder)}
OrderOf(key) == IF key \in CatalogKeys
                THEN CHOOSE i \in 1..Len(CatalogOrder) : CatalogOrder[i] = key
                ELSE 0

Contains(text, part) ==
    \E i \in 1..(Len(text) - Len(part) + 1) : SubSeq(text, i, i + Len(part) - 1) = part

(***************************************************************************)
(* C1: a turn of run_travel_payload_agent whose pending question is a date *)
(* question and whose message is neither a greeting nor a YYYY-MM-DD date  *)
(* (after '/' -> '-') leaves payload, last_question_key and stage as they  *)
(* were and returns a message containing that question's prompt.           *)
(***************************************************************************)
C1_InvalidDateKeepsState ==
    ( /\ AgentTurn
      /\ turn.pre.last_question_key \in {"_internal/start_date", "_internal/end_date"}
      /\ ~IsGreeting(turn.msg)
      /\ ~strptime_ok(replace(strip(turn.msg))) )
    => /\ Core(After) = turn.pre
       /\ Contains(turn.output, get_question_map[turn.pre.last_question_key])

C1_Witness ==
    /\ AgentTurn
    /\ turn.pre.last_question_key = "_internal/end_date"
    /\ turn.msg = "next week"
    /\ Answered(After.payload, "_internal/start_date")

(***************************************************************************)
(* C2: when applying the answer fails inside the guarded write step, the   *)
(* payload after the turn equals the payload before it and the turn emits  *)
(* the prompt of the same pending question.                                *)
(***************************************************************************)
C2_FailedWriteKeepsPayload ==
    (AgentTurn /\ turn.write = "raised")
    => /\ After.payload = turn.pre.payload
       /\ After.last_question_key = turn.pre.last_question_key
       /\ turn.output = get_question_map[turn.pre.last_question_key]

(***************************************************************************)
(* C3: whenever the stage is quote_generation the persisted payload has no *)
(* _internal key and last_question_key is null; the finalizing turn ends   *)
(* in that stage; no payload with an _internal key is passed to the quote  *)
(* API.                                                                    *)
(***************************************************************************)
C3_FinalPayloadHasNoInternal ==
    /\ \A sid \in DOMAIN sessions :
          sessions[sid].stage = "quote_generation"
          => /\ sessions[sid].payload # PyNone
             /\ "_internal" \notin DOMAIN sessions[sid].payload
             /\ sessions[sid].last_question_key = NoKey
    /\ (AgentTurn /\ turn.branch = "final") => After.stage = "quote_generation"
    /\ api_request # PyNone => "_internal" \notin DOMAIN api_request

C3_Witness ==
    /\ turn.callee = "run_quote_generation"
    /\ turn.branch = "api_error"
    /\ After.stage = "quote_generation"
    /\ api_request = After.payload

(***************************************************************************)
(* C4: prompts follow the catalog order: a pending field has every earlier *)
(* catalog field answered, a fresh session is asked the first field, a     *)
(* turn moves the prompt to the same or the next field, and the turn that  *)
(* answers the last catalog field is exactly the turn that finalizes.      *)
(***************************************************************************)
LastKey == CatalogOrder[Len(CatalogOrder)]

C4_PromptsFollowCatalogOrder ==
    /\ \A sid \in DOMAIN sessions :
          sessions[sid].last_question_key # NoKey
          => /\ sessions[sid].payload # PyNone
             /\ \A i \in 1..(OrderOf(sessions[sid].last_question_key) - 1) :
                   Answered(sessions[sid].payload, CatalogOrder[i])
    /\ (AgentTurn /\ turn.pre.payload = PyNone)
          => (turn.branch = "prompt" /\ After.last_question_key = CatalogOrder[1])
    /\ (AgentTurn /\ turn.branch = "prompt" /\ turn.pre.last_question_key # NoKey)
          => OrderOf(After.last_question_key) \in
                {OrderOf(turn.pre.last_question_key), OrderOf(turn.pre.last_question_key) + 1}
    /\ (AgentTurn /\ turn.branch = "final")
          => /\ turn.pre.last_question_key = LastKey
             /\ ~Answered(turn.pre.payload, LastKey)
             /\ Answered(After.payload, LastKey)
    /\ (AgentTurn /\ turn.pre.last_question_key = LastKey /\ turn.branch = "prompt")
          => ~Answered(After.payload, LastKey)

C4_Witness ==
    /\ AgentTurn
    /\ turn.branch = "final"
    /\ turn.pre.last_question_key = "promotion/coupon_code"
    /\ turn.msg = "SAVE10"

(***************************************************************************)
(* C5: within a collection pass a field that is answered before a turn of  *)
(* run_travel_payload_agent is answered after it, and the turn does not    *)
(* emit that field's prompt, whatever the message (answer, invalid date,   *)
(* greeting passed to run_travel_payload_agent).                           *)
(***************************************************************************)
C5_AnsweredStaysAnswered ==
    (AgentTurn /\ turn.branch \in {"prompt", "reask"} /\ turn.pre.payload # PyNone)
    => \A k \in CatalogKeys :
          Answered(turn.pre.payload, k)
          => /\ Answered(After.payload, k)
             /\ ~Contains(turn.output, get_question_map[k])

C5_Witness ==
    /\ turn.op = "run_travel_payload_agent"
    /\ turn.msg = "hi"
    /\ turn.pre.last_question_key = "travel/selectedAddOns/lossFFMAddOn/selected"
    /\ FieldValue(After.payload, "travel/selectedAddOns/preExAddOn/selected") = PyBool(FALSE)
    /\ turn.output = get_question_map["travel/selectedAddOns/lossFFMAddOn/selected"]

(***************************************************************************)
(* C6: whenever the adult or the child list is non-empty, total equals     *)
(* adults + children (an empty list counting 0), with_children is "yes"    *)
(* exactly when children > 0 and with_group_of_adults is "yes" exactly     *)
(* when adults > 1, for every answer to the two count questions.           *)
(***************************************************************************)
IsCount(lst) == Len(lst.v) = 0 \/ lst.v[1].t = "int"
CountOf(lst) == IF Len(lst.v) = 0 THEN 0 ELSE lst.v[1].v
YesNo(b) == IF b THEN PyStr("yes") ELSE PyStr("no")

CountsAgree(travel) ==
    /\ IsCount(travel.number_of_travellers.adult)
    /\ IsCount(travel.number_of_travellers.child)
    /\ travel.number_of_travellers.total =
          PyInt(CountOf(travel.number_of_travellers.adult)
                  + CountOf(travel.number_of_travellers.child))
    /\ travel.with_children = YesNo(CountOf(travel.number_of_travellers.child) > 0)
    /\ travel.with_group_of_adults = YesNo(CountOf(travel.number_of_travellers.adult) > 1)

C6_TotalsFollowCounts ==
    \A sid \in DOMAIN sessions :
        ( /\ sessions[sid].payload # PyNone
          /\ \/ Len(sessions[sid].payload.travel.number_of_travellers.adult.v) > 0
             \/ Len(sessions[sid].payload.travel.number_of_travellers.child.v) > 0 )
        => CountsAgree(sessions[sid].payload.travel)

(***************************************************************************)
(* C7: the finalizing turn sets number_of_days to                          *)
(* max((end_date - start_date).days + 1, 1) from the stored _internal      *)
(* dates, so in stage quote_generation number_of_days is an integer >= 1.  *)
(***************************************************************************)
C7_NumberOfDays ==
    /\ (AgentTurn /\ turn.branch = "final")
          => /\ After.payload.travel.number_of_days =
                   PyInt(Max(strptime(turn.pre.payload["_internal"].end_date.v)
                               - strptime(turn.pre.payload["_internal"].start_date.v) + 1, 1))
             /\ ( /\ turn.pre.payload["_internal"].start_date.v = "2024-02-28"
                  /\ turn.pre.payload["_internal"].end_date.v = "2024-03-05" )
                   => After.payload.travel.number_of_days = PyInt(7)
    /\ \A sid \in DOMAIN sessions :
          sessions[sid].stage = "quote_generation"
          => /\ sessions[sid].payload.travel.number_of_days.t = "int"
             /\ sessions[sid].payload.travel.number_of_days.v >= 1

C7_Witness ==
    /\ AgentTurn
    /\ turn.branch = "final"
    /\ turn.pre.payload["_internal"].start_date = PyStr("2024-03-05")
    /\ turn.pre.payload["_internal"].end_date = PyStr("2024-03-01")
    /\ After.stage = "quote_generation"
    /\ After.payload.travel.number_of_days = PyInt(1)

(***************************************************************************)
(* C8: an orchestrate_chat turn whose message is a greeting ends with the  *)
(* payload equal to the template, last_question_key = travel/policy_type   *)
(* and stage = payload_collection, and returns the policy-type prompt,     *)
(* from whatever state it started.                                         *)
(***************************************************************************)
C8_GreetingResets ==
    (turn.op = "orchestrate_chat" /\ turn.msg \in {"hi", " Hello "})
    => /\ After.payload = get_payload_template
       /\ \A k \in CatalogKeys : ~Answered(After.payload, k)
       /\ After.last_question_key = "travel/policy_type"
       /\ After.stage = "payload_collection"
       /\ turn.output =
            "To start, what is the policy type? (Enter 'S' for Single Trip or 'A' for Annual)"

C8_Witness ==
    /\ turn.op = "orchestrate_chat"
    /\ turn.msg = " Hello "
    /\ turn.stage0 = "quote_generation"
    /\ After.payload = get_payload_template
    /\ After.stage = "payload_collection"

(***************************************************************************)
(* C9: find_next_question_key returns the first catalog key, in catalog    *)
(* order, whose value is a missing path, null or an empty list, and none   *)
(* exactly when there is no such key; "", False, 0 and [0] count as        *)
(* answered; on the template it returns travel/policy_type.                *)
(***************************************************************************)
FirstUnanswered(p) ==
    IF \E i \in 1..Len(CatalogOrder) : ~Answered(p, CatalogOrder[i])
    THEN CatalogOrder[CHOOSE i \in 1..Len(CatalogOrder) :
                         /\ ~Answered(p, CatalogOrder[i])
                         /\ \A j \in 1..(i - 1) : Answered(p, CatalogOrder[j])]
    ELSE NoKey

C9_FindsFirstUnanswered ==
    found # NotCalled
    => /\ found = FirstUnanswered(probe)
       /\ (found = NoKey) <=> (\A k \in CatalogKeys : Answered(probe, k))
       /\ probe = get_payload_template => found = "travel/policy_type"

C9_Witness ==
    /\ found = NoKey
    /\ probe.promotion.coupon_code = PyStr("")
    /\ probe.travel.selectedAddOns.preExAddOn.selected = PyBool(FALSE)
    /\ probe.leads.email = PyInt(0)
    /\ probe.travel.number_of_travellers.adult = PyList(<<PyInt(0)>>)

(***************************************************************************)
(* C10: a turn of run_travel_payload_agent changes no catalog field other  *)
(* than the one last_question_key named at its start.  As claimed for all  *)
(* turns, the finalizing turn included:                                    *)
(***************************************************************************)
LoadedBefore == IF turn.pre.payload = PyNone THEN get_payload_template ELSE turn.pre.payload

C10_OnlyPendingFieldChanges ==
    AgentTurn
    => \A k \in CatalogKeys \ {turn.pre.last_question_key} :
          FieldValue(After.payload, k) = FieldValue(LoadedBefore, k)

(***************************************************************************)
(* C10 as amended: a turn that does not finalize changes no catalog field  *)
(* other than the pending one; the finalizing turn changes the pending     *)
(* field and removes _internal/start_date and _internal/end_date, and      *)
(* changes no other catalog field.                                         *)
(***************************************************************************)
C10_OnlyPendingFieldChangesUntilFinal ==
    /\ (AgentTurn /\ turn.branch # "final")
          => \A k \in CatalogKeys \ {turn.pre.last_question_key} :
                FieldValue(After.payload, k) = FieldValue(LoadedBefore, k)
    /\ (AgentTurn /\ turn.branch = "final")
          => /\ \A k \in CatalogKeys \ ({turn.pre.last_question_key} \cup DateKeys) :
                   FieldValue(After.payload, k) = FieldValue(LoadedBefore, k)
             /\ \A k \in DateKeys : FieldValue(After.payload, k) = Missing

C10_Witness ==
    /\ AgentTurn
    /\ turn.branch = "final"
    /\ Answered(turn.pre.payload, "_internal/start_date")
    /\ FieldValue(After.payload, "_internal/start_date") = Missing
    /\ FieldValue(After.payload, "promotion/coupon_code") = PyStr("")

(***************************************************************************)
(* C11: payloads of different sessions are independent: a session without  *)
(* a payload starts from the template whatever the other session holds,    *)
(* and a turn on one session (answering, finalizing, resetting) leaves     *)
(* payload, last_question_key and stage of every other session as they     *)
(* were, in every interleaving of whole turns.                             *)
(***************************************************************************)
C11_SessionsIndependent ==
    /\ [](( /\ AgentTurn
            /\ turn.pre.payload = PyNone
            /\ turn.branch = "prompt" ) => After.payload = get_payload_template)
    /\ [][\A sid \in DOMAIN sessions :
             sid # turn'.sid => Core(sessions'[sid]) = Core(sessions[sid])]_vars

C11_Witness ==
    /\ AgentTurn
    /\ turn.sid = "s1"
    /\ turn.branch = "final"
    /\ FieldValue(sessions["s1"].payload, "_internal/start_date") = Missing
    /\ sessions["s2"].stage = "payload_collection"
    /\ sessions["s2"].last_question_key = "travel/country_code"
    /\ FieldValue(sessions["s2"].payload, "_internal/start_date") = PyStr("2024-02-28")
    /\ FieldValue(sessions["s2"].payload, "travel/policy_type") = PyStr("single")

(***************************************************************************)
(* C12: a finalized payload is never modified while it is handed off: a    *)
(* run_quote_generation turn leaves the persisted payload as it was,       *)
(* whatever the quote API answers, what it posts is that payload, and two  *)
(* consecutive quote calls of a session that stays in quote_generation     *)
(* post the same payload.                                                  *)
(***************************************************************************)
C12_FinalPayloadImmutable ==
    /\ [](turn.callee = "run_quote_generation"
            => /\ After.payload = turn.pre.payload
               /\ api_request # PyNone => api_request = turn.pre.payload)
    /\ [][\A sid \in DOMAIN sessions :
             ( /\ sessions[sid].stage = "quote_generation"
               /\ sessions'[sid].stage = "quote_generation" )
             => /\ sessions'[sid].payload = sessions[sid].payload
                /\ ( /\ api_request # PyNone
                     /\ turn.sid = sid
                     /\ turn'.sid = sid )
                      => api_request' = api_request]_vars

C12_Witness ==
    /\ turn.callee = "run_quote_generation"
    /\ turn.branch = "api_error"
    /\ turn.output = "Sorry, there was an error getting the quote: HTTP error: 500"
    /\ After.stage = "quote_generation"
    /\ After.payload.travel.number_of_days = PyInt(7)
    /\ api_request = turn.pre.payload

(***************************************************************************)
(* C13: when a fault escapes run_travel_payload_agent in an                *)
(* orchestrate_chat turn the user receives the generic apology and the     *)
(* stage after the turn equals the stage before the turn, from every stage *)
(* in which the core is entered; a fault inside run_quote_generation       *)
(* leaves the stage "initial".  As claimed:                                *)
(***************************************************************************)
CoreFaultTurn ==
    turn.op = "orchestrate_chat" /\ AgentTurn /\ turn.branch = "fault"
QuoteFaultTurn ==
    turn.callee = "run_quote_generation" /\ turn.branch = "fault"

C13_FaultKeepsStage ==
    /\ CoreFaultTurn => (turn.output = ApologyText /\ After.stage = turn.stage0)
    /\ QuoteFaultTurn => After.stage = "initial"

(***************************************************************************)
(* C13 as amended: when a fault escapes run_travel_payload_agent in an     *)
(* orchestrate_chat turn the user receives the generic apology and the     *)
(* stage is not reset: it is payload_collection, the stage in which the    *)
(* core is entered (the stage before the turn, or the stage                *)
(* orchestrate_chat set before the call), or quote_generation when the     *)
(* fault follows the finalizing set_stage; a fault inside                  *)
(* run_quote_generation leaves the stage "initial".                        *)
(***************************************************************************)
C13_FaultKeepsEnteredStage ==
    /\ CoreFaultTurn
          => /\ turn.output = "I'm sorry, a critical error occurred."
             /\ After.stage \in {"payload_collection", "quote_generation"}
             /\ After.stage = "quote_generation"
                   => \A k \in CatalogKeys \ DateKeys : Answered(After.payload, k)
             /\ ( /\ turn.stage0 = "payload_collection"
                  /\ \E k \in CatalogKeys \ {turn.pre.last_question_key} :
                        ~Answered(LoadedBefore, k) )
                   => After.stage = turn.stage0
    /\ QuoteFaultTurn
          => /\ After.stage = "initial"
             /\ turn.output = "I'm sorry, I ran into an error while generating your quote."

C13_Witness ==
    /\ CoreFaultTurn
    /\ turn.stage0 = "initial"
    /\ turn.msg = "I need travel insurance"
    /\ After.stage = "payload_collection"
    /\ turn.output = ApologyText

(***************************************************************************)
(* C14: the value stored for an accepted answer follows the first matching *)
(* rule of: date field -> the text with '/' replaced by '-'; policy type   *)
(* -> "single" for s/S, "annual" for a/A, any other text unchanged; text   *)
(* true/false in any case -> the boolean; coupon code "no" in any case ->  *)
(* ""; all-digit text -> the integer; otherwise the trimmed text.  Counts  *)
(* are stored as a one-element list, a country code as a one-element list  *)
(* of the upper-cased text.  (An answer is accepted when the write step    *)
(* completes; the field is one the payload holds.)                         *)
(***************************************************************************)
RuleValue(key, text, lowered) ==
    IF key \in {"_internal/start_date", "_internal/end_date"} THEN PyStr(replace(text))
    ELSE IF key = "travel/policy_type"
    THEN (IF lowered = "s" THEN PyStr("single")
          ELSE IF lowered = "a" THEN PyStr("annual")
          ELSE PyStr(text))
    ELSE IF lowered = "true" THEN PyBool(TRUE)
    ELSE IF lowered = "false" THEN PyBool(FALSE)
    ELSE IF key = "promotion/coupon_code" /\ lowered = "no" THEN PyStr("")
    ELSE IF IsDecimal(text) THEN PyInt(DecimalValue(text, Len(text)))
    ELSE PyStr(text)

RuleStored(key, value) ==
    IF key \in {"travel/number_of_travellers/adult", "travel/number_of_travellers/child"}
    THEN PyList(<<value>>)
    ELSE IF key = "travel/country_code" THEN PyList(<<PyStr(upper(value.v))>>)
    ELSE value

Rule(key, text) == RuleStored(key, RuleValue(key, text, lower(text)))

AcceptedAnswer ==
    /\ AgentTurn
    /\ turn.write = "done"
    /\ FieldValue(LoadedBefore, turn.pre.last_question_key) # Missing

\* Answers and the values the rules give them.
C14_Examples ==
    << <<"travel/policy_type", "true", PyStr("true")>>,
       <<"travel/policy_type", "12", PyStr("12")>>,
       <<"travel/policy_type", " S", PyStr("single")>>,
       <<"_internal/start_date", "2024/03/05", PyStr("2024-03-05")>>,
       <<"travel/country_code", "mal", PyList(<<PyStr("MAL")>>)>>,
       <<"travel/number_of_travellers/adult", "2", PyList(<<PyInt(2)>>)>>,
       <<"travel/selectedAddOns/preExAddOn/selected", "FALSE", PyBool(FALSE)>>,
       <<"travel/selectedAddOns/preExAddOn/selected", "yes", PyStr("yes")>>,
       <<"travel/selectedAddOns/flightDelayAddOn/selected", "True ", PyBool(TRUE)>>,
       <<"leads/contact_mobile", "91234567", PyInt(91234567)>>,
       <<"promotion/coupon_code", "No", PyStr("")>>,
       <<"promotion/coupon_code", "SAVE10", PyStr("SAVE10")>> >>

C14_StoredValueFollowsRules ==
    AcceptedAnswer
    => /\ FieldValue(After.payload, turn.pre.last_question_key) =
             Rule(turn.pre.last_question_key, strip(turn.msg))
       /\ \A i \in 1..Len(C14_Examples) :
             ( /\ turn.pre.last_question_key = C14_Examples[i][1]
               /\ turn.msg = C14_Examples[i][2] )
             => FieldValue(After.payload, C14_Examples[i][1]) = C14_Examples[i][3]

C14_Witness ==
    /\ AcceptedAnswer
    /\ turn.pre.last_question_key = "travel/policy_type"
    /\ turn.msg = "true"
    /\ After.payload.travel.policy_type = PyStr("true")
    /\ After.last_question_key = "_internal/start_date"

(***************************************************************************)
(* C15: in every reachable state the payload respects the declared field   *)
(* types: travel.policy_type is null, "single" or "annual"; each           *)
(* travel.selectedAddOns.*.selected is null or a boolean;                  *)
(* travel.number_of_travellers.total is null or an integer; whatever text  *)
(* the user gives.                                                         *)
(***************************************************************************)
DeclaredTypes(travel) ==
    /\ travel.policy_type \in {PyNone, PyStr("single"), PyStr("annual")}
    /\ \A a \in {"preExAddOn", "lossFFMAddOn", "flightDelayAddOn"} :
          travel.selectedAddOns[a].selected.t \in {"none", "bool"}
    /\ travel.number_of_travellers.total.t \in {"none", "int"}

C15_DeclaredFieldTypes ==
    \A sid \in DOMAIN sessions :
        sessions[sid].payload # PyNone => DeclaredTypes(sessions[sid].payload.travel)

(***************************************************************************)
(* C16: turns on the same session are serialized: no two calls of          *)
(* run_travel_payload_agent for one session id are between their read and  *)
(* their writes at once, and the writes of a call lose no answer that the  *)
(* store holds when they are made.                                         *)
(***************************************************************************)
\* At most one call per session id is between its read and its writes.
OneCallPerSession ==
    \A t1, t2 \in Threads :
        (t1 # t2 /\ inflight[t1].busy /\ inflight[t2].busy)
        => inflight[t1].sid # inflight[t2].sid

\* The writes of a call that does not finalize keep every answer the store
\* holds when they are made.
WritesKeepAnswers ==
    \A t \in Threads :
        (inflight[t].busy /\ ~inflight'[t].busy /\ turn'.branch # "final")
        => \A k \in CatalogKeys :
              Answered(sessions[inflight[t].sid].payload, k)
              => FieldValue(sessions'[inflight[t].sid].payload, k) =
                    FieldValue(sessions[inflight[t].sid].payload, k)

C16_TurnsSerialized == []OneCallPerSession /\ [][WritesKeepAnswers]_vars

(***************************************************************************)
(* C17: after every turn of run_travel_payload_agent that does not         *)
(* finalize (an invalid-date re-ask and a greeting with a question pending *)
(* included) last_question_key is the first unanswered catalog field of    *)
(* the persisted payload and the turn returns that field's prompt; so an   *)
(* answer is always applied to the first unanswered field, never to an     *)
(* answered one.                                                           *)
(***************************************************************************)
PromptOf(key) ==
    CASE key = "travel/policy_type" ->
           "To start, what is the policy type? (Enter 'S' for Single Trip or 'A' for Annual)"
      [] key = "_internal/start_date" -> "What is your travel start date (YYYY-MM-DD)?"
      [] key = "_internal/end_date" -> "And what is your travel end date (YYYY-MM-DD)?"
      [] key = "travel/country_code" ->
           "What is the 3-letter country code for your destination (e.g., 'MAL')?"
      [] key = "travel/number_of_travellers/adult" -> "How many adults are traveling?"
      [] key = "travel/number_of_travellers/child" -> "How many children are traveling?"
      [] key = "travel/selectedAddOns/preExAddOn/selected" ->
           "Do you require coverage for pre-existing conditions? (true/false)"
      [] key = "travel/selectedAddOns/lossFFMAddOn/selected" ->
           "Add coverage for Loss of Frequent Flyer Miles? (true/false)"
      [] key = "travel/selectedAddOns/flightDelayAddOn/selected" ->
           "Add the Flight Delay benefit? (true/false)"
      [] key = "leads/email" -> "What is your email address?"
      [] key = "leads/contact_mobile" -> "What is your 8-digit contact mobile number?"
      [] key = "promotion/coupon_code" ->
           "Finally, do you have a coupon code? (If not, just say 'no')"
      [] OTHER -> "no prompt"

C17_PendingIsFirstUnanswered ==
    /\ (AgentTurn /\ turn.branch \in {"prompt", "reask"})
          => /\ After.last_question_key = FirstUnanswered(After.payload)
             /\ turn.branch = "prompt" => turn.output = PromptOf(After.last_question_key)
             /\ turn.branch = "reask"
                   => turn.output = ReAskText \o PromptOf(After.last_question_key)
    /\ (AgentTurn /\ turn.write # "none")
          => /\ turn.pre.last_question_key = FirstUnanswered(LoadedBefore)
             /\ ~Answered(LoadedBefore, turn.pre.last_question_key)

C17_Witness ==
    /\ AgentTurn
    /\ turn.branch = "reask"
    /\ turn.msg = "2024-02-30"
    /\ After.last_question_key = "_internal/start_date"
    /\ Answered(After.payload, "travel/policy_type")
    /\ ~Answered(After.payload, "_internal/start_date")

(***************************************************************************)
(* C18: from every state with stage payload_collection, a collection pass  *)
(* entered by a non-greeting message after a quote was delivered included, *)
(* a user who keeps giving well-formed answers to the prompts reaches      *)
(* finalization; no question is re-asked forever despite valid answers.    *)
(* Stated on one turn: a well-formed answer to the pending prompt leaves   *)
(* the session finalized or with a later catalog question pending, so that *)
(* twelve such answers at most lead to stage quote_generation.             *)
(***************************************************************************)
WellFormed(key) ==
    CASE key = "travel/policy_type" -> {" S", "a"}
      [] key = "_internal/start_date" -> {"2024-02-28", "2024/03/05"}
      [] key = "_internal/end_date" -> {"2024-03-05", "2024/03/01 "}
      [] key = "travel/country_code" -> {"mal"}
      [] key = "travel/number_of_travellers/adult" -> {ToText(n) : n \in 1..MaxAdults}
      [] key = "travel/number_of_travellers/child" -> {ToText(n) : n \in 0..MaxChildren}
      [] key = "travel/selectedAddOns/preExAddOn/selected" -> {"true", "FALSE"}
      [] key = "travel/selectedAddOns/lossFFMAddOn/selected" -> {"false"}
      [] key = "travel/selectedAddOns/flightDelayAddOn/selected" -> {"True "}
      [] key = "leads/email" -> {"a@b.sg"}
      [] key = "leads/contact_mobile" -> {"91234567"}
      [] key = "promotion/coupon_code" -> {"No", "SAVE10"}
      [] OTHER -> {}

ValidAnswerTurn ==
    /\ turn.op = "orchestrate_chat"
    /\ AgentTurn
    /\ turn.pre.stage = "payload_collection"
    /\ turn.msg \in WellFormed(turn.pre.last_question_key)

C18_ValidAnswersReachFinalization ==
    ValidAnswerTurn
    => \/ After.stage = "quote_generation"
       \/ OrderOf(After.last_question_key) > OrderOf(turn.pre.last_question_key)

\* The state the counterexample ends in: the turn changed nothing, so the
\* same prompt meets the same answer again.
C18_Stuck ==
    /\ ValidAnswerTurn
    /\ Core(After) = turn.pre
    /\ turn.output = get_question_map[turn.pre.last_question_key]

(***************************************************************************)
(* C19: the stage becomes quote_generation only through the finalizing     *)
(* branch of run_travel_payload_agent; every payload passed to the quote   *)
(* API has every catalog field outside _internal answered; a payload that  *)
(* is missing at quote time is not sent: the stage goes back to            *)
(* payload_collection and the user is asked to start over.                 *)
(***************************************************************************)
EntersQuoteStageByFinalizing ==
    \A sid \in DOMAIN sessions :
        ( /\ sessions[sid].stage # "quote_generation"
          /\ sessions'[sid].stage = "quote_generation" )
        => /\ turn'.sid = sid
           /\ turn'.callee = "run_travel_payload_agent"
           /\ turn'.branch = "final"

C19_OnlyCompletePayloadsQuoted ==
    /\ [][EntersQuoteStageByFinalizing]_vars
    /\ [](api_request # PyNone
            => \A k \in CatalogKeys \ {"_internal/start_date", "_internal/end_date"} :
                  Answered(api_request, k))
    /\ []((turn.callee = "run_quote_generation" /\ turn.pre.payload = PyNone)
            => /\ api_request = PyNone
               /\ After.stage = "payload_collection"
               /\ turn.output = "I seem to have lost your details. Let's start over.")

C19_Witness ==
    /\ turn.callee = "run_quote_generation"
    /\ turn.stage0 = "quote_generation"
    /\ turn.pre.payload = PyNone
    /\ turn.branch = "lost"
    /\ After.stage = "payload_collection"
    /\ api_request = PyNone

=============================================================================
